---- MODULE Spec2Model ----
(***************************************************************************)
(* Model of alf/trainers/on_policy_trainer.py: the two entry points        *)
(* train() and play().  The collaborators (OnPolicyDriver, the checkpoint  *)
(* layer, the environment, eager_compute) are modelled by what the loops   *)
(* see of them: the values they return and the calls they receive.  Every  *)
(* collaborator call returns; intervals are positive integers.             *)
(***************************************************************************)
EXTENDS Integers, Sequences, FiniteSets

VARIABLES
    proc,                 \* which entry point runs: "train" or "play"
    pc,                   \* "start" (entered), "loop" (in the for loop), "done"
    \* ---- arguments
    train_dir,            \* path, as a sequence of components
    eval_env,             \* None or an environment
    num_steps_per_iter,
    num_iterations,
    use_tf_functions,
    eval_interval,
    checkpoint_interval,
    checkpoint_name,      \* None or <<"ckpt", n>>
    num_steps,
    sleep_time_per_step,
    \* ---- locals and collaborator state
    eval_metrics,         \* None or the metric list built at lines 81-84
    driver_run,           \* "eager" or "tf_function": what driver.run is bound to
    ckpt_files,           \* checkpoints under <train_dir>/algorithm, oldest write first
    restored_from,        \* None, or the path the algorithm's parameters were restored from
    global_step,          \* the global counter
    iter,                 \* loop index: number of completed iterations / steps
    time_step,
    policy_state,
    episode_reward,
    episode_length,
    trace,                \* the operations performed so far, in order
    \* ---- history of the driver, kept for the properties
    last_call,            \* arguments of the latest driver.run call (None before the first)
    driver_ret,           \* what the driver handed out last: initial values, then run's result
    episodes,             \* completed episodes as the environment played them
    true_length,          \* steps of the episode in progress, every step counted
    true_reward           \* rewards of the episode in progress, every step counted

vars == <<proc, pc, train_dir, eval_env, num_steps_per_iter, num_iterations,
          use_tf_functions, eval_interval, checkpoint_interval, checkpoint_name,
          num_steps, sleep_time_per_step, eval_metrics, driver_run, ckpt_files,
          restored_from, global_step, iter, time_step, policy_state,
          episode_reward, episode_length, trace, last_call, driver_ret,
          episodes, true_length, true_reward>>

args == <<proc, train_dir, eval_env, num_steps_per_iter, num_iterations,
          use_tf_functions, eval_interval, checkpoint_interval, checkpoint_name,
          num_steps, sleep_time_per_step>>

play_locals == <<episode_reward, episode_length, episodes, true_length, true_reward>>

----------------------------------------------------------------------------
\* Bounds of the model.
MaxIterations == 3
MaxInterval == 2
MaxSteps == 3

None == <<>>

\* The values the arguments and the collaborators' answers are drawn from.
Intervals == 1..MaxInterval
StepsPerIter == {1, 2}
SleepTimes == {1, 2}
Rewards == {0, 1}
PolicyStates == {0, 1}
TimeSteps == [is_last : BOOLEAN, reward : Rewards]
CkptNames == {<<"ckpt", 1>>, <<"ckpt", 2>>}
TrainDirs == {<<"~", "run">>, <<"tmp", "run">>}

\* Sequences over S without repetition, of length at most n.
RECURSIVE DistinctSeqs(_, _)
DistinctSeqs(S, n) ==
    IF n = 0 THEN {<<>>}
    ELSE {<<>>} \cup UNION {{<<x>> \o s : s \in DistinctSeqs(S \ {x}, n - 1)} : x \in S}

\* What <train_dir>/algorithm may hold on entry, in the order it was written.
CkptDirContents == DistinctSeqs(CkptNames, Cardinality(CkptNames))

----------------------------------------------------------------------------
\* Paths and the checkpoint layer.

\* os.path.expanduser: a leading "~" becomes the home directory.
ExpandUser(path) ==
    IF Len(path) > 0 /\ path[1] = "~" THEN <<"home">> \o Tail(path) ELSE path

\* os.path.join(dir, name) for a relative name.
PathJoin(dir, name) == Append(dir, name)

CkptDir(dir) == PathJoin(ExpandUser(dir), "algorithm")

\* tf.train.latest_checkpoint / CheckpointManager.latest_checkpoint: the
\* checkpoint written last, None when the directory holds none.
LatestCheckpoint(dir, files) ==
    IF files = <<>> THEN None ELSE PathJoin(dir, files[Len(files)])

\* The counter value a checkpoint holds: save() names it ckpt-<global_step>.
RestoredGlobalStepStale(path) == 0
RestoredGlobalStep(path) == path[Len(path)][2]

\* checkpointer.save(global_step=g): writes ckpt-<g>, which becomes the latest.
SaveCheckpoint(files, g) ==
    Append(SelectSeq(files, LAMBDA f : f # <<"ckpt", g>>), <<"ckpt", g>>)

\* play: which checkpoint to restore.
ResolveCkptPathLatestOnly(dir, name, files) == LatestCheckpoint(dir, files)
ResolveCkptPath(dir, name, files) ==
    IF name # None THEN PathJoin(dir, name) ELSE LatestCheckpoint(dir, files)

----------------------------------------------------------------------------
\* The operations the trace records.
EvRestore(path) == [op |-> "restore", path |-> path]
EvReset == [op |-> "reset"]
EvRender == [op |-> "render"]
EvSleep(secs) == [op |-> "sleep", secs |-> secs]
EvRun(n) == [op |-> "run", max_num_steps |-> n]
EvLogIter(i) == [op |-> "log_iter", iter |-> i]
EvSave(where, i, g) == [op |-> "save", at |-> where, iter |-> i, global_step |-> g]
EvEval(i, g, metrics) == [op |-> "eval", iter |-> i, train_step |-> g, metrics |-> metrics]
EvLogEpisode(len, rew) ==
    [op |-> "log_episode", episode_length |-> len, episode_reward |-> rew]

\* driver.get_initial_time_step() / get_initial_state() after env.reset().
InitialTimeStep == [is_last |-> FALSE, reward |-> 0]
InitialState == 0

\* The arguments of one driver.run call.
RunCallFreshState(n, ts, ps) ==
    [max_num_steps |-> n, time_step |-> ts, policy_state |-> InitialState]
RunCall(n, ts, ps) == [max_num_steps |-> n, time_step |-> ts, policy_state |-> ps]

\* How far one driver.run(max_num_steps=n) advances the global counter: one
\* update per step when training (train_interval taken as 1), none when
\* training=False.
DriverUpdates(training, n) == IF training THEN n ELSE 0

----------------------------------------------------------------------------
\* train

\* for iter in range(num_iterations)
TrainLoopContinuesOneMore(i, n) == i <= n
TrainLoopContinues(i, n) == i < n

ShouldCheckpointOffByOne(i, interval) == i % interval = 0
ShouldCheckpoint(i, interval) == (i + 1) % interval = 0

ShouldEvalIgnoringEnv(env, i, interval) == (i + 1) % interval = 0
ShouldEval(env, i, interval) == env # None /\ (i + 1) % interval = 0

\* The operations of one training iteration, given the counter after run.
TrainIterEvents(i, g) ==
    <<EvRun(num_steps_per_iter), EvLogIter(i)>>
    \o (IF ShouldCheckpoint(i, checkpoint_interval)
        THEN <<EvSave("loop", i, g)>> ELSE <<>>)
    \o (IF ShouldEval(eval_env, i, eval_interval)
        THEN <<EvEval(i, g, eval_metrics)>> ELSE <<>>)

\* Lines 75-111: everything before the loop.
TrainSetup ==
    /\ proc = "train" /\ pc = "start"
    /\ eval_metrics' = IF eval_env # None THEN <<"AverageReturn", "AverageEpisodeLength">>
                       ELSE None
    /\ LET latest == LatestCheckpoint(CkptDir(train_dir), ckpt_files) IN
         IF latest # None
         THEN /\ restored_from' = latest
              /\ global_step' = RestoredGlobalStep(latest)
              /\ trace' = trace \o <<EvRestore(latest), EvReset>>
         ELSE /\ UNCHANGED <<restored_from, global_step>>
              /\ trace' = Append(trace, EvReset)
    /\ driver_run' = IF use_tf_functions THEN "tf_function" ELSE "eager"
    /\ time_step' = InitialTimeStep
    /\ policy_state' = InitialState
    /\ driver_ret' = [time_step |-> InitialTimeStep, policy_state |-> InitialState]
    /\ pc' = "loop"
    /\ UNCHANGED <<args, ckpt_files, iter, last_call, play_locals>>

\* Lines 112-135: one iteration of the loop.
TrainIter ==
    /\ proc = "train" /\ pc = "loop"
    /\ TrainLoopContinues(iter, num_iterations)
    /\ \E ts \in TimeSteps, ps \in PolicyStates :
       LET upd == DriverUpdates(TRUE, num_steps_per_iter) IN
         /\ last_call' = RunCall(num_steps_per_iter, time_step, policy_state)
         /\ driver_ret' = [time_step |-> ts, policy_state |-> ps]
         /\ time_step' = ts
         /\ policy_state' = ps
         /\ global_step' = global_step + upd
         /\ trace' = trace \o TrainIterEvents(iter, global_step + upd)
         /\ ckpt_files' = IF ShouldCheckpoint(iter, checkpoint_interval)
                          THEN SaveCheckpoint(ckpt_files, global_step + upd)
                          ELSE ckpt_files
    /\ iter' = iter + 1
    /\ UNCHANGED <<args, pc, eval_metrics, driver_run, restored_from, play_locals>>

\* Line 137: the save after the loop.
TrainFinish ==
    /\ proc = "train" /\ pc = "loop"
    /\ ~TrainLoopContinues(iter, num_iterations)
    /\ trace' = Append(trace, EvSave("end", iter, global_step))
    /\ ckpt_files' = SaveCheckpoint(ckpt_files, global_step)
    /\ pc' = "done"
    /\ UNCHANGED <<args, eval_metrics, driver_run, restored_from, global_step, iter,
                   time_step, policy_state, last_call, driver_ret, play_locals>>

----------------------------------------------------------------------------
\* play

\* for _ in range(num_steps)
PlayLoopStopsAtEpisodeEnd(i, n, ts) == i < n /\ ~ts.is_last
PlayLoopContinues(i, n, ts) == i < n

\* Lines 207-214: the accumulators after a step that returned ts.
NextEpisodeLengthNoReset(ts, len) == len + 1
NextEpisodeLength(ts, len) == IF ts.is_last THEN 0 ELSE len + 1

NextEpisodeReward(ts, rew) == IF ts.is_last THEN 0 ELSE rew + ts.reward

\* The operations of one play step whose driver.run returned ts.
PlayStepEvents(ts, len, rew) ==
    <<EvRun(1)>>
    \o (IF ts.is_last THEN <<EvLogEpisode(len, rew)>> ELSE <<>>)
    \o <<EvRender, EvSleep(sleep_time_per_step)>>

\* Lines 170-203: everything before the loop.
PlaySetup ==
    /\ proc = "play" /\ pc = "start"
    /\ LET ckpt_path == ResolveCkptPath(CkptDir(train_dir), checkpoint_name, ckpt_files) IN
         IF ckpt_path # None
         THEN /\ restored_from' = ckpt_path
              /\ global_step' = RestoredGlobalStep(ckpt_path)
              /\ trace' = trace \o <<EvRestore(ckpt_path), EvRender, EvReset>>
         ELSE /\ UNCHANGED <<restored_from, global_step>>
              /\ trace' = trace \o <<EvRender, EvReset>>
    /\ driver_run' = IF use_tf_functions THEN "tf_function" ELSE "eager"
    /\ time_step' = InitialTimeStep
    /\ policy_state' = InitialState
    /\ driver_ret' = [time_step |-> InitialTimeStep, policy_state |-> InitialState]
    /\ episode_reward' = 0
    /\ episode_length' = 0
    /\ pc' = "loop"
    /\ UNCHANGED <<args, eval_metrics, ckpt_files, iter, last_call,
                   episodes, true_length, true_reward>>

\* Lines 204-216: one step of the loop.
PlayStep ==
    /\ proc = "play" /\ pc = "loop"
    /\ PlayLoopContinues(iter, num_steps, time_step)
    /\ \E ts \in TimeSteps, ps \in PolicyStates :
       LET upd == DriverUpdates(FALSE, 1) IN
         /\ last_call' = RunCall(1, time_step, policy_state)
         /\ driver_ret' = [time_step |-> ts, policy_state |-> ps]
         /\ time_step' = ts
         /\ policy_state' = ps
         /\ global_step' = global_step + upd
         /\ trace' = trace \o PlayStepEvents(ts, episode_length, episode_reward)
         /\ episode_length' = NextEpisodeLength(ts, episode_length)
         /\ episode_reward' = NextEpisodeReward(ts, episode_reward)
         /\ IF ts.is_last
            THEN /\ episodes' = Append(episodes, [length |-> true_length + 1,
                                                  reward |-> true_reward + ts.reward])
                 /\ true_length' = 0
                 /\ true_reward' = 0
            ELSE /\ true_length' = true_length + 1
                 /\ true_reward' = true_reward + ts.reward
                 /\ UNCHANGED episodes
    /\ iter' = iter + 1
    /\ UNCHANGED <<args, pc, eval_metrics, driver_run, ckpt_files, restored_from>>

\* Line 217: env.reset() after the loop.
PlayFinish ==
    /\ proc = "play" /\ pc = "loop"
    /\ ~PlayLoopContinues(iter, num_steps, time_step)
    /\ trace' = Append(trace, EvReset)
    /\ pc' = "done"
    /\ UNCHANGED <<args, eval_metrics, driver_run, ckpt_files, restored_from,
                   global_step, iter, time_step, policy_state, last_call,
                   driver_ret, play_locals>>

----------------------------------------------------------------------------
\* The state on entry to train().
InitTrain ==
    /\ proc = "train"
    /\ eval_env \in {None, <<"eval_env">>}
    /\ num_steps_per_iter \in StepsPerIter
    /\ num_iterations \in 0..MaxIterations
    /\ eval_interval \in Intervals
    /\ checkpoint_interval \in Intervals
    /\ checkpoint_name = None
    /\ num_steps = 0
    /\ sleep_time_per_step = 0
    /\ Len(ckpt_files) <= 1

\* The state on entry to play().
InitPlay ==
    /\ proc = "play"
    /\ eval_env = None
    /\ num_steps_per_iter = 1
    /\ num_iterations = 0
    /\ eval_interval = 1
    /\ checkpoint_interval = 1
    /\ checkpoint_name \in {None} \cup CkptNames
    /\ num_steps \in 0..MaxSteps
    /\ sleep_time_per_step \in SleepTimes

Init ==
    /\ train_dir \in TrainDirs
    /\ use_tf_functions \in BOOLEAN
    /\ ckpt_files \in CkptDirContents
    /\ InitTrain \/ InitPlay
    /\ pc = "start"
    /\ eval_metrics = None
    /\ driver_run = "eager"
    /\ restored_from = None
    /\ global_step = 0
    /\ iter = 0
    /\ time_step = InitialTimeStep
    /\ policy_state = InitialState
    /\ episode_reward = 0
    /\ episode_length = 0
    /\ trace = <<>>
    /\ last_call = None
    /\ driver_ret = [time_step |-> InitialTimeStep, policy_state |-> InitialState]
    /\ episodes = <<>>
    /\ true_length = 0
    /\ true_reward = 0

Next ==
    \/ TrainSetup
    \/ TrainIter
    \/ TrainFinish
    \/ PlaySetup
    \/ PlayStep
    \/ PlayFinish

Spec == Init /\ [][Next]_vars

\* train() alone.  The code is one sequential thread and every collaborator
\* call returns, so a statement that can run does run: weak fairness of the
\* next step.
TrainInit == Init /\ proc = "train"

TrainNext ==
    \/ TrainSetup
    \/ TrainIter
    \/ TrainFinish

TrainFairSpec == TrainInit /\ [][TrainNext]_vars /\ WF_vars(TrainNext)

----------------------------------------------------------------------------
\* Reading the trace.
At(op) == {p \in 1..Len(trace) : trace[p].op = op}
Only(op) == SelectSeq(trace, LAMBDA e : e.op = op)
LoopSaves == {p \in At("save") : trace[p].at = "loop"}
EndSaves == {p \in At("save") : trace[p].at = "end"}

\* A step of either loop: the one place driver.run is called.
IsRunStep == pc = "loop" /\ iter' = iter + 1

\* C1: in train, a save happens inside the loop right after iteration k (after
\* its run and its log line, before the next run) exactly for the k in
\* 1..iterations-done with k % checkpoint_interval = 0, once each; and one more
\* save, the last operation of all, happens once the loop has ended and not before.
C1_CheckpointSchedule ==
    proc = "train" =>
      /\ {trace[p].iter + 1 : p \in LoopSaves}
           = {k \in 1..iter : k % checkpoint_interval = 0}
      /\ Cardinality(LoopSaves) = Cardinality({k \in 1..iter : k % checkpoint_interval = 0})
      /\ \A p \in LoopSaves :
           /\ p >= 3
           /\ trace[p - 1] = EvLogIter(trace[p].iter)
           /\ trace[p - 2].op = "run"
      /\ EndSaves = IF pc = "done" THEN {Len(trace)} ELSE {}

\* The scenario num_iterations=3, checkpoint_interval=2, run to its end.
C1_Witness ==
    /\ proc = "train" /\ pc = "done"
    /\ num_iterations = 3 /\ checkpoint_interval = 2
    /\ {trace[p].iter + 1 : p \in LoopSaves} = {2}
    /\ Cardinality(EndSaves) = 1

\* The part of C2 that holds in every state: as many driver.run calls as
\* iterations done, never more than num_iterations, each with
\* max_num_steps = num_steps_per_iter, and num_iterations of them at the end.
TrainRunCalls ==
    proc = "train" =>
      /\ Cardinality(At("run")) = iter
      /\ iter <= num_iterations
      /\ \A p \in At("run") : trace[p] = EvRun(num_steps_per_iter)
      /\ pc = "done" => iter = num_iterations

\* C2: train with num_iterations = N calls driver.run exactly N times, each with
\* max_num_steps = num_steps_per_iter, and then terminates.
C2_ExactlyNRuns == []TrainRunCalls /\ (proc = "train" ~> pc = "done")

C2_Witness ==
    /\ proc = "train" /\ pc = "done"
    /\ num_iterations = 3 /\ num_steps_per_iter = 2
    /\ Cardinality(At("run")) = 3

\* C3: in train an evaluation pass runs at 0-based iteration i exactly when
\* eval_env is not None and (i + 1) % eval_interval = 0, once; with eval_env
\* None there is none and the loop still does all its iterations.
C3_EvalSchedule ==
    proc = "train" =>
      /\ {trace[p].iter : p \in At("eval")}
           = IF eval_env # None
             THEN {i \in 0..(iter - 1) : (i + 1) % eval_interval = 0}
             ELSE {}
      /\ Cardinality(At("eval")) = Cardinality({trace[p].iter : p \in At("eval")})
      /\ \A p \in At("eval") : trace[p].metrics # None
      /\ (eval_env = None /\ pc = "done") =>
           /\ iter = num_iterations
           /\ Cardinality(At("run")) = num_iterations

C3_Witness ==
    /\ proc = "train" /\ pc = "done"
    /\ eval_env # None /\ eval_interval = 2 /\ num_iterations = 3
    /\ {trace[p].iter : p \in At("eval")} = {1}

\* C4: in play, with checkpoint_name given exactly <train_dir>/algorithm/<name>
\* is restored; without it the latest checkpoint under <train_dir>/algorithm
\* is; and when that directory holds none, nothing is restored, the
\* parameters stay as initialized and the loop still runs its num_steps steps.
C4_CheckpointResolution ==
    (proc = "play" /\ pc # "start") =>
      LET dir == ExpandUser(train_dir) \o <<"algorithm">> IN
        /\ checkpoint_name # None =>
             /\ Only("restore") = <<EvRestore(dir \o <<checkpoint_name>>)>>
             /\ restored_from = dir \o <<checkpoint_name>>
        /\ (checkpoint_name = None /\ ckpt_files # <<>>) =>
             /\ Only("restore") = <<EvRestore(dir \o <<ckpt_files[Len(ckpt_files)]>>)>>
             /\ restored_from = dir \o <<ckpt_files[Len(ckpt_files)]>>
        /\ (checkpoint_name = None /\ ckpt_files = <<>>) =>
             /\ Only("restore") = <<>>
             /\ restored_from = None
             /\ pc = "done" => Cardinality(At("run")) = num_steps

\* A named checkpoint that is not the latest one is the one restored.
C4_Witness ==
    /\ proc = "play" /\ pc = "done"
    /\ train_dir = <<"~", "run">>
    /\ checkpoint_name = <<"ckpt", 1>>
    /\ ckpt_files = <<<<"ckpt", 1>>, <<"ckpt", 2>>>>
    /\ restored_from = <<"home", "run", "algorithm", <<"ckpt", 1>>>>
    /\ iter = num_steps /\ num_steps >= 1

\* C5: on a play step whose returned time step is_last both accumulators are
\* set to zero; on any other step neither is reset: episode_length grows by 1
\* and episode_reward by the step's reward.
C5_ResetOnlyAtEpisodeEnd ==
    [][(proc = "play" /\ IsRunStep) =>
         LET ts == driver_ret'.time_step IN
           /\ ts.is_last => (episode_length' = 0 /\ episode_reward' = 0)
           /\ ~ts.is_last => /\ episode_length' = episode_length + 1
                             /\ episode_reward' = episode_reward + ts.reward]_vars

\* Two steps accumulated, then the episode ended and the accumulators were reset.
C5_Witness ==
    /\ proc = "play" /\ iter = 3
    /\ time_step.is_last
    /\ episode_length = 0 /\ episode_reward = 0
    /\ \E p \in At("log_episode") : trace[p].episode_length = 2

\* C6: one line is logged per completed episode, holding the number of steps
\* and the sum of the rewards of that whole episode, the step that reports the
\* episode boundary included.
C6_LoggedEpisodeTotals ==
    proc = "play" =>
      Only("log_episode")
        = [i \in 1..Len(episodes) |->
             EvLogEpisode(episodes[i].length, episodes[i].reward)]

\* The events of the play loop proper: what follows the reset before it.
LoopEvents ==
    LET resets == At("reset") IN
      IF resets = {} THEN <<>>
      ELSE LET first == CHOOSE p \in resets : \A q \in resets : p <= q IN
             SelectSeq(SubSeq(trace, first + 1, Len(trace)),
                       LAMBDA e : e.op \in {"run", "render", "sleep"})

\* C7: play with num_steps = S calls driver.run exactly S times, each with
\* max_num_steps = 1 and each followed, before the next call, by one render and
\* one sleep of sleep_time_per_step; the loop ends after S steps, whatever the
\* episode boundaries.
C7_StepRenderSleep ==
    proc = "play" =>
      /\ Len(LoopEvents) = 3 * iter
      /\ \A j \in 0..(iter - 1) :
           /\ LoopEvents[3 * j + 1] = EvRun(1)
           /\ LoopEvents[3 * j + 2] = EvRender
           /\ LoopEvents[3 * j + 3] = EvSleep(sleep_time_per_step)
      /\ iter <= num_steps
      /\ pc = "done" => iter = num_steps

\* Three steps played to the end with an episode boundary in the middle.
C7_Witness ==
    /\ proc = "play" /\ pc = "done"
    /\ num_steps = 3 /\ sleep_time_per_step = 2
    /\ Len(episodes) >= 1
    /\ ~time_step.is_last
    /\ Len(LoopEvents) = 9

\* C9: only the driver's run changes the global step counter.
C9_DriverOnlyWriter == [][global_step' # global_step => IsRunStep]_vars

\* C9 as amended: the counter changes only in a driver.run step or in the
\* restore of a checkpoint, which sets it to the value the checkpoint holds;
\* the saves and evaluation passes of a step read the value the driver left.
C9_DriverAndRestoreWrite ==
    [][/\ global_step' # global_step => (IsRunStep \/ restored_from' # restored_from)
       /\ restored_from' # restored_from =>
            /\ pc = "start"
            /\ global_step' = restored_from'[Len(restored_from')][2]
       /\ \A p \in (Len(trace) + 1)..Len(trace') :
            /\ trace'[p].op = "save" => trace'[p].global_step = global_step'
            /\ trace'[p].op = "eval" => trace'[p].train_step = global_step']_vars

\* train resumed from ckpt-2: the restore moved the counter before any run.
C9_Witness ==
    /\ proc = "train" /\ pc = "loop" /\ iter = 0
    /\ global_step = 2
    /\ At("run") = {}
    /\ At("restore") # {}

\* C10: the first driver.run call receives the initial time step and state,
\* and every later call receives the time_step and policy_state the call
\* before it returned.
C10_StateThreaded ==
    [][IsRunStep =>
         /\ last_call'.time_step = driver_ret.time_step
         /\ last_call'.policy_state = driver_ret.policy_state
         /\ iter = 0 => /\ last_call'.time_step = InitialTimeStep
                        /\ last_call'.policy_state = InitialState]_vars

\* A call made right after an episode boundary, with a state that is not the
\* initial one.
C10_Witness ==
    /\ proc = "play" /\ iter >= 2
    /\ last_call # None
    /\ last_call.time_step.is_last
    /\ last_call.policy_state # InitialState

====
